---- MODULE Spec2Model ----
(***************************************************************************)
(* Learning-rate schedulers of python/mxnet/lr_scheduler.py:               *)
(* FactorScheduler (fixed interval) and MultiFactorScheduler (milestones). *)
(*                                                                         *)
(* One scheduler object is constructed (the constructor may raise), its    *)
(* base_lr is assigned by its owner, and it is then called any number of   *)
(* times with update counters.  Rates are exact rationals <<num, den>> in  *)
(* lowest terms (den > 0); the rounding of Python floats is not modelled.  *)
(* slow_step = 0 stands for both None and 0, which the code treats alike   *)
(* (`if self.slow_step and ...`).                                          *)
(*                                                                         *)
(* Four more parts of the package are modelled, each under a specification *)
(* of its own: the Barrier of python/mxnet/gluon/contrib/parallel.py       *)
(* (SpecBarrier), the KVStore registry of python/mxnet/kvstore/base.py     *)
(* (SpecRegistry), the recording scopes of python/mxnet/autograd.py        *)
(* (SpecAutograd) and parallel_apply of gluon/contrib/parallel.py          *)
(* (SpecApply).  A specification leaves the parts it is not about idle.    *)
(***************************************************************************)
EXTENDS Integers, Sequences, FiniteSets, TLC

VARIABLES
    self,        \* the scheduler object (a record of its attributes)
    raised,      \* "none", or the exception the constructor raised
    fresh,       \* the object as it was before its first call
    num_update,  \* argument of the last call (-1: not called yet)
    ret,         \* value the last call returned (None: not called yet)
    log,         \* logging.info records the last call emitted
    decays,      \* number of `base_lr *= factor` the last call executed
    looped,      \* the last call executed the recovery loop statement
    ncalls,      \* calls so far, saturating at 2
    ordered,     \* no call so far passed a smaller counter than an earlier one
    increasing,  \* every call so far passed a larger counter than the one before
    gradual,     \* no call after the first exceeded more than one open boundary
    counting,    \* the calls so far passed exactly 0, 1, ..., num_update in order
    args,        \* the arguments the constructor was called with
    twin,        \* an object constructed alike but without slow_step, called alike
    unit,        \* every call after the first passed the counter before it, or one more
    highest,     \* the largest counter passed so far (repeat runs only)
    again,       \* the last call passed the counter of the call before it (repeat runs only)
    total,       \* number of `base_lr *= factor` executed by all calls so far
    hist,        \* <<counter, returned rate>> of every call (scenario runs only)
    barrier,     \* the Barrier object of gluon/contrib/parallel.py
    thread,      \* per thread using the Barrier: position, idx, results so far
    calls,       \* <<thread, arguments>> of every invocation of barrier.op
    kv_registry, \* KVStoreBase.kv_registry: lowercase name -> class
    kv_last,     \* the last register / create call and its outcome
    kv_latest,   \* lowercase name -> class last passed to register under it
    recording,   \* autograd's recording flag of the thread ("True" / "False")
    training,    \* autograd's training flag of the thread ("True" / "False")
    scopes,      \* the RecordingStateScope objects created so far
    stack,       \* the open `with` blocks, innermost last: the scope entered and
                 \* the flags just before __enter__
    scope_last,  \* the last scope operation, the flags before it and what it set
    pa_inputs,   \* parallel_apply: the inputs, each with what module does on it
    pa_workers,  \* parallel_apply: position and local `output` of every worker thread
    pa_results,  \* parallel_apply: the dict `results`
    pa_caller    \* parallel_apply: position of the calling thread, its outputs

schedulervars == <<self, raised, fresh, num_update, ret, log, decays, looped,
                   ncalls, ordered, increasing, gradual, counting, args, twin,
                   unit, highest, again, total, hist>>

barriervars == <<barrier, thread, calls>>

registryvars == <<kv_registry, kv_last, kv_latest>>

autogradvars == <<recording, training, scopes, stack, scope_last>>

applyvars == <<pa_inputs, pa_workers, pa_results, pa_caller>>

vars == <<schedulervars, barriervars, registryvars, autogradvars, applyvars>>

----------------------------------------------------------------------------
(* Bounds of the general specification *)

\* largest update counter passed to a call
MaxUpdate == 9
\* largest interval / milestone / slow_step tried
MaxStep == 3
\* longest milestone list
MaxLen == 2
\* calls recorded in a scenario run
MaxCalls == 5

----------------------------------------------------------------------------
(* Exact rational arithmetic for the float attributes *)

Abs(x) == IF x < 0 THEN -x ELSE x

RECURSIVE Gcd(_, _)
Gcd(a, b) == IF b = 0 THEN a ELSE Gcd(b, a % b)

\* n/d in lowest terms, d > 0
Rat(n, d) == LET g == Gcd(Abs(n), d) IN <<n \div g, d \div g>>

\* a * b
Mul(a, b) == Rat(a[1] * b[1], a[2] * b[2])

\* a < b
Less(a, b) == a[1] * b[2] < b[1] * a[2]

\* a <= b
Leq(a, b) == a[1] * b[2] <= b[1] * a[2]

RECURSIVE Pow(_, _)
\* a ^ k
Pow(a, k) == IF k = 0 THEN <<1, 1>> ELSE Mul(a, Pow(a, k - 1))

One == <<1, 1>>

\* Python's None for slow_lr and for "no value returned yet"
None == <<0, 0>>

----------------------------------------------------------------------------
(* Constructors *)

\* LRScheduler.__init__: base_lr = 0.01
DefaultLr == <<1, 100>>

\* FactorScheduler.__init__ default stop_factor_lr = 1e-8
DefaultStopLr == <<1, 100000000>>

NoObject == [kind |-> "none"]

\* FactorScheduler.__init__(step, factor, slow_step, stop_factor_lr)
FactorSchedulerInit(step, factor, slow_step, stop_factor_lr) ==
    IF step < 1 THEN [raised |-> "ValueError", self |-> NoObject]
    ELSE IF Less(One, factor) THEN [raised |-> "ValueError", self |-> NoObject]
    ELSE [raised |-> "none",
          self |-> [kind |-> "Factor", base_lr |-> DefaultLr, lr_recovered |-> FALSE,
                    step |-> step, factor |-> factor,
                    stop_factor_lr |-> stop_factor_lr, count |-> 0,
                    slow_step |-> slow_step, slow_lr |-> None]]

----------------------------------------------------------------------------
(* FactorScheduler.__call__ *)

\* working state of one call: the object, the records logged, the decays done
Frame(o) == [o |-> o, log |-> <<>>, decays |-> 0, looped |-> FALSE]

Logged(f, msg, lr) == [f EXCEPT !.log = Append(@, <<msg, lr>>)]

\* mutant of FactorClamp: the floor is never applied
FactorClampNever(f) == Logged(f, "change", f.o.base_lr)

\* the clamp `if self.base_lr < self.stop_factor_lr` and its two log lines
FactorClamp(f) ==
    IF Less(f.o.base_lr, f.o.stop_factor_lr)
    THEN Logged([f EXCEPT !.o.base_lr = f.o.stop_factor_lr], "floor", f.o.stop_factor_lr)
    ELSE Logged(f, "change", f.o.base_lr)

\* one boundary: count += step; base_lr *= factor; clamp
FactorDecay(f) ==
    FactorClamp([f EXCEPT !.o.count = @ + f.o.step,
                          !.o.base_lr = Mul(@, f.o.factor),
                          !.decays = @ + 1])

RECURSIVE FactorRecoverLoop(_, _)
\* while num_update > self.count + self.step: ...
FactorRecoverLoop(f, n) ==
    IF n > f.o.count + f.o.step
    THEN FactorRecoverLoop(FactorDecay(f), n)
    ELSE f

\* mutant of FactorRecover: lr_recovered is set only where the loop runs
FactorRecoverUnlessZero(f, n) ==
    IF ~f.o.lr_recovered /\ n # 0
    THEN [FactorRecoverLoop(f, n) EXCEPT !.looped = TRUE, !.o.lr_recovered = TRUE]
    ELSE f

\* if not self.lr_recovered: ... self.lr_recovered = True
FactorRecover(f, n) ==
    IF ~f.o.lr_recovered
    THEN LET g == IF n = 0 THEN f
                  ELSE [FactorRecoverLoop(f, n) EXCEPT !.looped = TRUE]
         IN [g EXCEPT !.o.lr_recovered = TRUE]
    ELSE f

\* if self.slow_step and num_update <= self.slow_step
FactorSlowActive(o, n) == o.slow_step # 0 /\ n <= o.slow_step

\* body of the slow-start branch: compute slow_lr once, it is what is returned
FactorSlowEnter(f, n) ==
    IF f.o.slow_lr = None
    THEN LET v == Mul(f.o.base_lr, f.o.factor)
         IN Logged([f EXCEPT !.o.slow_lr = v], "slow start", v)
    ELSE f

\* mutant of FactorSlowLeave: the cached slow_lr is kept
FactorSlowLeaveKeeps(f, n) ==
    IF f.o.slow_lr # None
    THEN Logged(f, "disable slow start", f.o.base_lr)
    ELSE f

\* elif self.slow_lr is not None: self.slow_lr = None
FactorSlowLeave(f, n) ==
    IF f.o.slow_lr # None
    THEN Logged([f EXCEPT !.o.slow_lr = None], "disable slow start", f.o.base_lr)
    ELSE f

\* mutant of FactorUpdate: the decay leaves count as it was
FactorUpdateKeepsCount(f, n) ==
    IF n > f.o.count + f.o.step
    THEN FactorClamp([f EXCEPT !.o.base_lr = Mul(@, f.o.factor), !.decays = @ + 1])
    ELSE f

\* mutant of FactorUpdate: a counter below count rewinds count to it
FactorUpdateRewinds(f, n) ==
    IF n > f.o.count + f.o.step THEN FactorDecay(f)
    ELSE IF n < f.o.count THEN [f EXCEPT !.o.count = n]
    ELSE f

\* "update base_lr if necessary": a single `if`, one boundary per call
FactorUpdate(f, n) ==
    IF n > f.o.count + f.o.step THEN FactorDecay(f) ELSE f

Result(f, v) ==
    [self |-> f.o, ret |-> v, log |-> f.log, decays |-> f.decays, looped |-> f.looped]

\* FactorScheduler.__call__(num_update)
FactorSchedulerCall(o, n) ==
    LET f1 == FactorRecover(Frame(o), n)
    IN IF FactorSlowActive(f1.o, n)
       THEN LET f2 == FactorSlowEnter(f1, n) IN Result(f2, f2.o.slow_lr)
       ELSE LET f3 == FactorUpdate(FactorSlowLeave(f1, n), n)
            IN Result(f3, f3.o.base_lr)

----------------------------------------------------------------------------
(* MultiFactorScheduler *)

\* mutant of MultiStepError: equal neighbours pass for increasing
MultiStepErrorAllowsEqual(step) ==
    \E i \in 1..Len(step) : (i # 1 /\ step[i] < step[i - 1]) \/ step[i] < 1

\* the checks of the `for i, _step in enumerate(step)` loop of __init__
MultiStepError(step) ==
    \E i \in 1..Len(step) : (i # 1 /\ step[i] <= step[i - 1]) \/ step[i] < 1

\* MultiFactorScheduler.__init__(step, factor, slow_step)
MultiFactorSchedulerInit(step, factor, slow_step) ==
    IF Len(step) < 1 THEN [raised |-> "AssertionError", self |-> NoObject]
    ELSE IF MultiStepError(step) THEN [raised |-> "ValueError", self |-> NoObject]
    ELSE IF Less(One, factor) THEN [raised |-> "ValueError", self |-> NoObject]
    ELSE IF slow_step # 0 /\ slow_step >= step[1]
         THEN [raised |-> "ValueError", self |-> NoObject]
    ELSE [raised |-> "none",
          self |-> [kind |-> "MultiFactor", base_lr |-> DefaultLr,
                    lr_recovered |-> FALSE, step |-> step, cur_step_ind |-> 0,
                    factor |-> factor, count |-> 0,
                    slow_step |-> slow_step, slow_lr |-> None]]

\* mutant of MultiDue: a milestone is consumed as soon as the counter reaches it
MultiDueAtMilestone(o, n) ==
    o.cur_step_ind <= Len(o.step) - 1 /\ n >= o.step[o.cur_step_ind + 1]

\* self.cur_step_ind <= len(self.step)-1 and num_update > self.step[self.cur_step_ind]
MultiDue(o, n) ==
    o.cur_step_ind <= Len(o.step) - 1 /\ n > o.step[o.cur_step_ind + 1]

\* mutant of MultiDecay: count is not set to the milestone
MultiDecaySkipsCount(f) ==
    LET v == Mul(f.o.base_lr, f.o.factor)
    IN Logged([f EXCEPT !.o.cur_step_ind = @ + 1,
                        !.o.base_lr = v,
                        !.decays = @ + 1], "change", v)

\* mutant of MultiDecay: base_lr is divided by factor
MultiDecayDivides(f) ==
    LET a == f.o.base_lr
        b == f.o.factor
        v == IF b[1] < 0 THEN Rat(-(a[1] * b[2]), a[2] * (-b[1]))
             ELSE Rat(a[1] * b[2], a[2] * b[1])
    IN Logged([f EXCEPT !.o.count = f.o.step[f.o.cur_step_ind + 1],
                        !.o.cur_step_ind = @ + 1,
                        !.o.base_lr = v,
                        !.decays = @ + 1], "change", v)

\* one milestone: count = step[ind]; cur_step_ind += 1; base_lr *= factor
MultiDecay(f) ==
    LET v == Mul(f.o.base_lr, f.o.factor)
    IN Logged([f EXCEPT !.o.count = f.o.step[f.o.cur_step_ind + 1],
                        !.o.cur_step_ind = @ + 1,
                        !.o.base_lr = v,
                        !.decays = @ + 1], "change", v)

RECURSIVE MultiRecoverLoop(_, _)
\* while self.cur_step_ind <= len(self.step)-1: if num_update > ...: ... else: break
MultiRecoverLoop(f, n) ==
    IF MultiDue(f.o, n) THEN MultiRecoverLoop(MultiDecay(f), n) ELSE f

\* if not self.lr_recovered: ... self.lr_recovered = True
MultiRecover(f, n) ==
    IF ~f.o.lr_recovered
    THEN LET g == IF n = 0 THEN f
                  ELSE [MultiRecoverLoop(f, n) EXCEPT !.looped = TRUE]
         IN [g EXCEPT !.o.lr_recovered = TRUE]
    ELSE f

\* if self.slow_step and num_update <= self.slow_step
MultiSlowActive(o, n) == o.slow_step # 0 /\ n <= o.slow_step

\* body of the slow-start branch: compute slow_lr once, it is what is returned
MultiSlowEnter(f, n) ==
    IF f.o.slow_lr = None
    THEN LET v == Mul(f.o.base_lr, f.o.factor)
         IN Logged([f EXCEPT !.o.slow_lr = v], "slow start", v)
    ELSE f

\* elif self.slow_lr is not None: self.slow_lr = None
MultiSlowLeave(f, n) ==
    IF f.o.slow_lr # None
    THEN Logged([f EXCEPT !.o.slow_lr = None], "disable slow start", f.o.base_lr)
    ELSE f

\* mutant of MultiUpdate: the next milestone is consumed whatever the counter
MultiUpdateIgnoresCounter(f, n) ==
    IF f.o.cur_step_ind <= Len(f.o.step) - 1 THEN MultiDecay(f) ELSE f

\* "update base_lr if necessary": a single `if`, one milestone per call
MultiUpdate(f, n) ==
    IF MultiDue(f.o, n) THEN MultiDecay(f) ELSE f

\* MultiFactorScheduler.__call__(num_update)
MultiFactorSchedulerCall(o, n) ==
    LET f1 == MultiRecover(Frame(o), n)
    IN IF MultiSlowActive(f1.o, n)
       THEN LET f2 == MultiSlowEnter(f1, n) IN Result(f2, f2.o.slow_lr)
       ELSE LET f3 == MultiUpdate(MultiSlowLeave(f1, n), n)
            IN Result(f3, f3.o.base_lr)

----------------------------------------------------------------------------
(* Values the constructors and the owner of the scheduler are given *)

\* decay factors: 2 is one the constructors reject, -1/2 one they accept
\* (only `factor > 1.0` is checked)
Factors == {<<-1, 2>>, <<1, 2>>, <<1, 1>>, <<2, 1>>}

\* stop_factor_lr: the default, a floor that halving 1 steps over after two
\* decays, and one that the first halving of 1 already falls below
StopLrs == {DefaultStopLr, <<3, 16>>, <<3, 4>>}

\* base_lr before the first call: LRScheduler's default, or set by the owner
InitialRates == {DefaultLr, One}

\* milestone lists, valid or not, of length 0..MaxLen over 0..MaxStep+1
StepLists == UNION {[1..k -> 0..(MaxStep + 1)] : k \in 0..MaxLen}

Updates == 0..MaxUpdate

\* the scheduler dispatched on its class
SchedulerCall(o, n) ==
    IF o.kind = "Factor" THEN FactorSchedulerCall(o, n)
    ELSE MultiFactorSchedulerCall(o, n)

\* boundaries / milestones not yet consumed that counter n strictly exceeds
Open(o, n) ==
    IF o.kind = "Factor"
    THEN IF n > o.count THEN (n - o.count - 1) \div o.step ELSE 0
    ELSE Cardinality({i \in (o.cur_step_ind + 1)..Len(o.step) : n > o.step[i]})

Min(a, b) == IF a < b THEN a ELSE b

----------------------------------------------------------------------------
(* The state machine *)

\* no Barrier is in use
BarrierIdle == barrier = NoObject /\ thread = <<>> /\ calls = <<>>

\* the registry is not in use
RegistryIdle == kv_registry = <<>> /\ kv_last = NoObject /\ kv_latest = <<>>

\* no autograd scope is in use
AutogradIdle ==
    /\ recording = "False" /\ training = "False" /\ scopes = <<>> /\ stack = <<>>
    /\ scope_last = NoObject

\* parallel_apply is not in use
ApplyIdle ==
    pa_inputs = <<>> /\ pa_workers = <<>> /\ pa_results = <<>> /\ pa_caller = NoObject

\* no scheduler is in use
SchedulerIdle ==
    /\ self = NoObject /\ raised = "unused" /\ fresh = NoObject /\ twin = NoObject
    /\ args = NoObject /\ num_update = -1 /\ ret = None /\ log = <<>>
    /\ decays = 0 /\ looped = FALSE /\ ncalls = 0 /\ ordered = TRUE
    /\ increasing = TRUE /\ gradual = TRUE /\ counting = TRUE /\ hist = <<>>
    /\ unit = TRUE /\ highest = -1 /\ again = FALSE /\ total = 0

Constructed(c, lr) ==
    /\ raised = c.raised
    /\ self = IF c.raised = "none" THEN [c.self EXCEPT !.base_lr = lr] ELSE c.self
    /\ fresh = self
    /\ num_update = -1
    /\ ret = None
    /\ log = <<>>
    /\ decays = 0
    /\ looped = FALSE
    /\ ncalls = 0
    /\ ordered = TRUE
    /\ increasing = TRUE
    /\ gradual = TRUE
    /\ counting = TRUE
    /\ unit = TRUE
    /\ highest = -1
    /\ again = FALSE
    /\ total = 0
    /\ twin = IF c.raised = "none" THEN [self EXCEPT !.slow_step = 0] ELSE c.self
    /\ hist = <<>>
    /\ BarrierIdle
    /\ RegistryIdle
    /\ AutogradIdle
    /\ ApplyIdle

Init ==
    \E lr \in InitialRates, factor \in Factors, slow_step \in 0..MaxStep :
        \/ \E step \in 0..MaxStep, stop \in StopLrs :
               /\ Constructed(FactorSchedulerInit(step, factor, slow_step, stop), lr)
               /\ args = [kind |-> "Factor", step |-> step, factor |-> factor,
                          slow_step |-> slow_step, stop_factor_lr |-> stop]
        \/ \E step \in StepLists :
               /\ Constructed(MultiFactorSchedulerInit(step, factor, slow_step), lr)
               /\ args = [kind |-> "MultiFactor", step |-> step, factor |-> factor,
                          slow_step |-> slow_step]

\* one call scheduler(num_update) and what it leaves behind
Called(n) ==
    LET r == SchedulerCall(self, n)
    IN /\ raised = "none"
       /\ self' = r.self
       /\ ret' = r.ret
       /\ log' = r.log
       /\ decays' = r.decays
       /\ looped' = r.looped
       /\ num_update' = n
       /\ ncalls' = Min(ncalls + 1, 2)
       /\ ordered' = (ordered /\ n >= num_update)
       /\ increasing' = (increasing /\ n > num_update)
       /\ gradual' = (gradual /\ (ncalls = 0 \/ Open(self, n) <= 1))
       /\ counting' = (counting /\ n = num_update + 1)
       /\ twin' = SchedulerCall(twin, n).self
       /\ unit' = (unit /\ (ncalls = 0 \/ n = num_update \/ n = num_update + 1))
       /\ total' = total + r.decays
       /\ UNCHANGED <<raised, fresh, args, barriervars, registryvars,
                    autogradvars, applyvars>>

FactorCall(n) ==
    self.kind = "Factor" /\ Called(n) /\ UNCHANGED <<hist, highest, again>>

MultiFactorCall(n) ==
    self.kind = "MultiFactor" /\ Called(n) /\ UNCHANGED <<hist, highest, again>>

Next == \E n \in Updates : FactorCall(n) \/ MultiFactorCall(n)

Spec == Init /\ [][Next]_vars

----------------------------------------------------------------------------
(* Scenario runs: the documented configurations (interval 10, factor 0.5,   *)
(* floor 0.01, with and without slow start 3; milestones 5, 10, 20 with     *)
(* factor 0.1), base_lr 1.0, called in order with the counters the          *)
(* documented examples use, every call recorded in hist.                    *)

ScenarioUpdates == {0, 1, 2, 3, 4, 6, 10, 11, 15, 25, 31}

ScenarioSlowSteps == {0, 3}

InitScenario ==
    \E slow_step \in ScenarioSlowSteps :
        \/ /\ Constructed(FactorSchedulerInit(10, <<1, 2>>, slow_step, <<1, 100>>), One)
           /\ args = [kind |-> "Factor", step |-> 10, factor |-> <<1, 2>>,
                      slow_step |-> slow_step, stop_factor_lr |-> <<1, 100>>]
        \/ /\ Constructed(MultiFactorSchedulerInit(<<5, 10, 20>>, <<1, 10>>, slow_step), One)
           /\ args = [kind |-> "MultiFactor", step |-> <<5, 10, 20>>,
                      factor |-> <<1, 10>>, slow_step |-> slow_step]

ScenarioCall(n) ==
    /\ Len(hist) < MaxCalls
    /\ n >= num_update
    /\ Called(n)
    /\ hist' = Append(hist, <<n, ret'>>)
    /\ UNCHANGED <<highest, again>>

NextScenario == \E n \in ScenarioUpdates : ScenarioCall(n)

SpecScenario == InitScenario /\ [][NextScenario]_vars

----------------------------------------------------------------------------
(* Repeat runs: a scheduler without slow_step, called with counters in any  *)
(* order; the largest counter so far and whether the last call repeated the *)
(* counter of the call before it are recorded.                              *)

InitRepeat == Init /\ args.slow_step = 0

RepeatCall(n) ==
    /\ Called(n)
    /\ highest' = IF n > highest THEN n ELSE highest
    /\ again' = (ncalls >= 1 /\ n = num_update)
    /\ UNCHANGED hist

NextRepeat == \E n \in Updates : RepeatCall(n)

SpecRepeat == InitRepeat /\ [][NextRepeat]_vars

----------------------------------------------------------------------------
(* Vocabulary of the claims *)

Alive == raised = "none"

IsFactor == Alive /\ self.kind = "Factor"

IsMulti == Alive /\ self.kind = "MultiFactor"

\* number of milestones of list `step` strictly less than n
Below(step, n) == Cardinality({i \in 1..Len(step) : step[i] < n})

RECURSIVE Decayed(_, _, _, _)
\* lr multiplied k times by factor, clamped at floor after each multiplication
Decayed(lr, factor, floor, k) ==
    IF k = 0 THEN lr
    ELSE LET v == Mul(Decayed(lr, factor, floor, k - 1), factor)
         IN IF Less(v, floor) THEN floor ELSE v

RECURSIVE Stepped(_, _)
\* the object after the calls 1, 2, ..., c in order
Stepped(o, c) == IF c = 0 THEN o ELSE SchedulerCall(Stepped(o, c - 1), c).self

\* base_lr and the decay counters of an object
Bookkeeping(o) ==
    IF o.kind = "Factor" THEN <<o.base_lr, o.count>>
    ELSE <<o.base_lr, o.count, o.cur_step_ind>>

\* the last call logged a record of kind msg
HasLogged(msg) == \E i \in 1..Len(log) : log[i][1] = msg

----------------------------------------------------------------------------
(* C1 .. C10 *)

\* C1: replay equivalence. After any strictly increasing sequence of calls on
\* one instance, the rate the last call returned equals the rate a fresh,
\* identically configured instance returns when called once with that last
\* counter.
C1_ReplayEquivalence ==
    (Alive /\ ncalls >= 1 /\ increasing)
        => ret = SchedulerCall(fresh, num_update).ret

\* C2: interval variant. A call whose counter has passed k >= 1 boundaries
\* beyond the recorded one advances count by k * step and multiplies base_lr
\* by factor k times (clamped at the floor) within that call.
C2_IntervalMultiCrossing ==
    [][ IsFactor =>
          LET k == Open(self, num_update')
          IN k >= 1 =>
               /\ self'.count = self.count + k * self.step
               /\ self'.base_lr =
                    Decayed(self.base_lr, self.factor, self.stop_factor_lr, k) ]_vars

\* C3: milestone variant. A call whose counter strictly exceeds j >= 1
\* unconsumed milestones advances cur_step_ind by j and multiplies base_lr by
\* factor j times within that call.
C3_MilestoneMultiCrossing ==
    [][ IsMulti =>
          LET j == Open(self, num_update')
          IN j >= 1 =>
               /\ self'.cur_step_ind = self.cur_step_ind + j
               /\ self'.base_lr = Mul(self.base_lr, Pow(self.factor, j)) ]_vars

\* C4: recovery. When the first call on a fresh scheduler has counter c > 0,
\* it leaves base_lr and the counters as a fresh scheduler has them after the
\* calls 1, 2, ..., c, slow start or not.
C4_RecoveryMatchesStepped ==
    (Alive /\ ncalls = 1 /\ num_update > 0)
        => Bookkeeping(self) = Bookkeeping(Stepped(fresh, num_update))

\* C5: recovery happens at most once. lr_recovered is false until the first
\* call, true once the first call has returned (counter 0 or not) and ever
\* after, and no call after the first executes the recovery loop.
C5_RecoverOnce ==
    Alive =>
        /\ ncalls = 0 => ~self.lr_recovered
        /\ ncalls >= 1 => self.lr_recovered
        /\ looped => ncalls = 1

\* C5 witness: a later call left boundaries unconsumed that a recovery loop
\* would have consumed, and did not run the loop.
C5_Witness ==
    /\ Alive /\ ncalls = 2 /\ self.lr_recovered /\ ~looped
    /\ Open(self, num_update) >= 1

\* counters and returned rates of the recorded calls
ScenarioCounters == [i \in 1..Len(hist) |-> hist[i][1]]

ScenarioRates == [i \in 1..Len(hist) |-> hist[i][2]]

\* the call is inside the slow-start window of object o
InWindow(o, n) == o.slow_step # 0 /\ n <= o.slow_step

\* C6: interval boundaries are strict. A call with counter <= count + step
\* (count as it was before the call) applies no decay; and with step 10,
\* factor 0.5, floor 0.01, base_lr 1.0 the calls 0, 10, 11, 31 return
\* 1.0, 1.0, 0.5, 0.125.
C6_StrictBoundary ==
    IsFactor =>
        /\ (ncalls >= 1 /\ num_update <= (self.count - decays * self.step) + self.step)
               => decays = 0
        /\ (self.slow_step = 0 /\ ScenarioCounters = <<0, 10, 11, 31>>)
               => ScenarioRates = <<One, One, <<1, 2>>, <<1, 8>>>>

\* C7 as claimed: floor safety of the interval variant. With an initial rate
\* >= stop_factor_lr, base_lr never is below stop_factor_lr and no call
\* returns a value below it, slow start or not.
C7_FloorSafety ==
    (IsFactor /\ Leq(self.stop_factor_lr, fresh.base_lr)) =>
        /\ Leq(self.stop_factor_lr, self.base_lr)
        /\ ncalls >= 1 => Leq(self.stop_factor_lr, ret)

\* C7 as amended: with an initial rate >= stop_factor_lr, base_lr never is
\* below stop_factor_lr, and no call outside the slow-start window returns a
\* value below it (the override returned inside the window is not clamped).
C7_FloorSafetyOutsideWindow ==
    (IsFactor /\ Leq(self.stop_factor_lr, fresh.base_lr)) =>
        /\ Leq(self.stop_factor_lr, self.base_lr)
        /\ (ncalls >= 1 /\ ~InWindow(self, num_update))
               => Leq(self.stop_factor_lr, ret)

\* C7 witness: a call whose decay fell below the floor, was clamped to it and
\* returned it.
C7_Witness ==
    /\ IsFactor /\ Leq(self.stop_factor_lr, fresh.base_lr)
    /\ HasLogged("floor") /\ self.base_lr = self.stop_factor_lr
    /\ ret = self.stop_factor_lr /\ fresh.base_lr # self.stop_factor_lr

\* C8 as claimed: milestone closed form. With non-decreasing counters and no
\* call after the first exceeding more than one unconsumed milestone, a call
\* with counter n returns base_lr * factor^k, k the number of milestones
\* strictly less than n, never clamped.
C8_MilestoneClosedForm ==
    (IsMulti /\ ncalls >= 1 /\ ordered /\ gradual)
        => ret = Mul(fresh.base_lr, Pow(self.factor, Below(self.step, num_update)))

\* C8 as amended: the same closed form for every call outside the slow-start
\* window (inside it the call returns the override base_lr * factor).
C8_MilestoneClosedFormOutsideWindow ==
    (IsMulti /\ ncalls >= 1 /\ ordered /\ gradual /\ ~InWindow(self, num_update))
        => ret = Mul(fresh.base_lr, Pow(self.factor, Below(self.step, num_update)))

\* C8 witness: a scheduler with slow start that has left the window and
\* consumed two milestones one call at a time, returning base_lr / 4.
C8_Witness ==
    /\ IsMulti /\ ncalls = 2 /\ ordered /\ gradual
    /\ self.slow_step # 0 /\ num_update > self.slow_step
    /\ self.cur_step_ind = 2 /\ self.factor = <<1, 2>>
    /\ ret = Mul(fresh.base_lr, <<1, 4>>)

\* C9: the slow-start override is computed once and cached. With non-decreasing
\* counters, every call with counter <= slow_step returns the initial base_lr
\* times factor, which is the cached slow_lr.
C9_SlowStartCached ==
    (Alive /\ ncalls >= 1 /\ ordered /\ InWindow(self, num_update))
        => /\ ret = Mul(fresh.base_lr, self.factor)
           /\ self.slow_lr = ret

\* C10: slow-start exit is permanent. With non-decreasing counters, once a
\* call's counter exceeds slow_step the cached override is absent and the
\* call returns base_lr.
C10_SlowStartExit ==
    (Alive /\ ncalls >= 1 /\ ordered /\ self.slow_step # 0
           /\ num_update > self.slow_step)
        => /\ self.slow_lr = None
           /\ ret = self.base_lr

\* C10 witness: the call that left the window: it cleared an override that
\* earlier calls had cached, and returned base_lr.
C10_Witness ==
    /\ Alive /\ ncalls = 2 /\ ordered /\ self.slow_step # 0
    /\ num_update > self.slow_step
    /\ HasLogged("disable slow start") /\ self.slow_lr = None
    /\ ret = self.base_lr

----------------------------------------------------------------------------
(* The documented examples that the code satisfies, under SpecScenario *)

\* C8, example: milestones 5, 10, 20, factor 0.1, base_lr 1.0, no slow start:
\* the calls 4, 6, 15, 25 return 1.0, 0.1, 0.01, 0.001, and a first call 25
\* returns 0.001.
C8_Example ==
    (IsMulti /\ self.slow_step = 0) =>
        /\ ScenarioCounters = <<4, 6, 15, 25>>
               => ScenarioRates = <<One, <<1, 10>>, <<1, 100>>, <<1, 1000>>>>
        /\ ScenarioCounters = <<25>> => ScenarioRates = << <<1, 1000>> >>

\* C9, example: slow_step 3, step 10, factor 0.5, base_lr 1.0: the calls
\* 0, 1, 2, 3 return 0.5 and the call 4 returns 1.0.
C9_Example ==
    (IsFactor /\ self.slow_step = 3 /\ ScenarioCounters = <<0, 1, 2, 3, 4>>)
        => ScenarioRates = << <<1, 2>>, <<1, 2>>, <<1, 2>>, <<1, 2>>, One >>

----------------------------------------------------------------------------
(* C11 .. C18 *)

\* C11: slow start does not touch decay bookkeeping. After every call of a
\* non-decreasing call sequence, base_lr and the counters of a constructed
\* scheduler equal those of a scheduler constructed alike but without
\* slow_step and given the same counters.
C11_SlowStartFrame ==
    (Alive /\ ordered) => Bookkeeping(self) = Bookkeeping(twin)

\* list `step` is strictly increasing
StrictlyIncreasing(step) == \A i \in 2..Len(step) : step[i] > step[i - 1]

\* the configurations C12 lists
BadConfiguration ==
    \/ args.kind = "Factor" /\ (args.step < 1 \/ Less(One, args.factor))
    \/ /\ args.kind = "MultiFactor"
       /\ \/ Less(One, args.factor)
          \/ ~StrictlyIncreasing(args.step)
          \/ \E i \in 1..Len(args.step) : args.step[i] < 1

\* C12, as stated: construction raises ValueError and produces no instance
\* when step < 1 (FactorScheduler), when factor > 1.0 (both), when the
\* milestone list is not strictly increasing, or when a milestone is < 1.
C12_ConfigurationErrors ==
    BadConfiguration => (raised = "ValueError" /\ self = NoObject)

\* C12, amended: in each of these cases no instance is produced; the error is
\* ValueError when the milestone list is non-empty, and AssertionError when
\* the milestone list is empty, whatever the factor is.
C12_ConfigurationErrorsNonEmpty ==
    BadConfiguration =>
        /\ self = NoObject
        /\ raised = IF args.kind = "MultiFactor" /\ args.step = <<>>
                    THEN "AssertionError" ELSE "ValueError"

\* C12 witness: a milestone list whose second milestone does not exceed the
\* first, and whose milestones are all >= 1, was rejected with ValueError.
C12_Witness ==
    /\ args.kind = "MultiFactor" /\ Len(args.step) = 2
    /\ args.step[1] >= 1 /\ args.step[2] >= 1 /\ args.step[2] <= args.step[1]
    /\ ~Less(One, args.factor)
    /\ raised = "ValueError" /\ self = NoObject

\* the first interval or milestone the constructor was given
FirstBoundary == IF args.kind = "Factor" THEN args.step ELSE args.step[1]

\* C13: in both variants a slow_step that is set and >= the first interval
\* or milestone makes construction raise ValueError, so every constructed
\* scheduler with slow_step set has slow_step < its first boundary.
C13_SlowStepBelowFirstBoundary ==
    /\ (/\ args.slow_step # 0
        /\ args.kind = "MultiFactor" => args.step # <<>>
        /\ args.slow_step >= FirstBoundary) => raised = "ValueError"
    /\ (Alive /\ self.slow_step # 0) => self.slow_step < FirstBoundary

\* C14: out-of-order counters. A call whose counter is smaller than the
\* counter of the call before it returns the rate that call returned and
\* leaves the scheduler as it was (no call raises).
C14_OutOfOrderPolicy ==
    [][ (Alive /\ ncalls >= 1 /\ num_update' < num_update)
            => (ret' = ret /\ self' = self) ]_vars

\* factor is in (0, 1]
FactorInUnitInterval(o) == Less(<<0, 1>>, o.factor) /\ Leq(o.factor, One)

\* C15, as stated: for every initial rate > 0, every factor in (0, 1] and
\* every stop_factor_lr, base_lr after a call is <= base_lr before it.
C15_BaseRateNonIncreasing ==
    [][ (Alive /\ FactorInUnitInterval(self))
            => Leq(self'.base_lr, self.base_lr) ]_vars

\* C15, amended: the same for every stop_factor_lr that does not exceed the
\* initial rate.
C15_BaseRateNonIncreasingAboveFloor ==
    [][ (/\ Alive /\ FactorInUnitInterval(self)
         /\ IsFactor => Leq(self.stop_factor_lr, fresh.base_lr))
            => Leq(self'.base_lr, self.base_lr) ]_vars

\* C15 witness: a decay brought base_lr below the initial rate and clamped
\* it at a floor that is below the initial rate.
C15_Witness ==
    /\ IsFactor /\ FactorInUnitInterval(self) /\ decays >= 1
    /\ Less(self.stop_factor_lr, fresh.base_lr)
    /\ self.base_lr = self.stop_factor_lr /\ HasLogged("floor")

\* C16: under any counters, in order or not, FactorScheduler's count and
\* MultiFactorScheduler's cur_step_ind never decrease, and cur_step_ind
\* never exceeds the number of milestones.
C16_CountersMonotone ==
    [][ /\ IsFactor => self'.count >= self.count
        /\ IsMulti => /\ self'.cur_step_ind >= self.cur_step_ind
                      /\ self'.cur_step_ind <= Len(self'.step) ]_vars

\* C16 witness: every milestone is consumed and the last call passed a
\* counter below the recorded count.
C16_Witness ==
    /\ IsMulti /\ ~ordered /\ self.cur_step_ind = Len(self.step)
    /\ self.count > num_update /\ num_update >= 0

\* C17: a call after the first logs a record exactly when the rate it
\* returns differs from the rate the call before it returned.
C17_LogIffRateChanged ==
    [][ (Alive /\ ncalls >= 1) => ((log' # <<>>) <=> (ret' # ret)) ]_vars

\* the rate of the class docstring: base_lr * pow(factor, floor(num_update/step))
Documented(o, lr, n) == Mul(lr, Pow(o.factor, n \div o.step))

\* C18: without slow_step and above the floor, when the calls were made with
\* the counters 0, 1, 2, ... in order, the call with counter n returned
\* base_lr * factor^floor(n / step).
C18_DocumentedFormula ==
    (/\ IsFactor /\ counting /\ ncalls >= 1 /\ self.slow_step = 0
     /\ Less(self.stop_factor_lr, Documented(self, fresh.base_lr, num_update)))
        => ret = Documented(self, fresh.base_lr, num_update)

----------------------------------------------------------------------------
(* Barrier of python/mxnet/gluon/contrib/parallel.py.  `counter` threads    *)
(* share one Barrier and each repeats idx = push(x); y = pull(idx), with    *)
(* nothing between one round and the next.  A `with` block runs under the   *)
(* mutex and is one step; wait() ends the step, and the waiting thread goes *)
(* on, under the mutex again, once a notify_all() has woken it.  The values *)
(* pushed are integers, one per thread and push.                            *)

\* threads sharing the Barrier (its counter)
MaxCounter == 2
\* pushes of one thread
MaxRounds == 2

\* operations a Barrier is constructed with: the test's my_callable, which
\* returns its inputs, and an all-reduce, which returns their sum to everyone
Operations == {"identity", "allreduce"}

RECURSIVE Sum(_)
Sum(list) == IF list = <<>> THEN 0 ELSE Head(list) + Sum(Tail(list))

\* self.op(*self.list)
Operation(op, list) ==
    IF op = "identity" THEN list ELSE [i \in 1..Len(list) |-> Sum(list)]

\* Barrier._clear
BarrierClear(b) ==
    [b EXCEPT !.list = <<>>, !.push_tasks = b.counter, !.reduce_tasks = b.counter]

\* Barrier.__init__; out is no attribute yet, an empty tuple stands for that
BarrierInit(counter, operation) ==
    BarrierClear([kind |-> "Barrier", counter |-> counter, op |-> operation,
                  list |-> <<>>, push_tasks |-> 0, reduce_tasks |-> 0,
                  out |-> <<>>])

\* the value thread t passes to its k-th push
Value(t, k) == 10 * k + t

\* a thread about to call push; idx -1: no push has returned yet
ThreadInit == [pc |-> "push", idx |-> -1, idxs |-> <<>>, ys |-> <<>>]

\* self.all_tasks_done.notify_all(): every waiting thread is woken
NotifyAll(th) ==
    [u \in DOMAIN th |->
        IF th[u].pc = "push_wait" THEN [th[u] EXCEPT !.pc = "push_woken"]
        ELSE IF th[u].pc = "sync_wait" THEN [th[u] EXCEPT !.pc = "sync_woken"]
        ELSE th[u]]

\* push returns idx
Returned(th) == [th EXCEPT !.pc = "pull", !.idxs = Append(@, th.idx)]

\* mutant of PushAppend: idx is the length of the list after the append
PushAppendCountsFromOne(t) ==
    /\ thread[t].pc = "push"
    /\ Len(thread[t].idxs) < MaxRounds
    /\ LET b == IF barrier.push_tasks = 0 THEN BarrierClear(barrier) ELSE barrier
           x == Value(t, Len(thread[t].idxs) + 1)
       IN /\ barrier' = [b EXCEPT !.list = Append(@, x), !.push_tasks = @ - 1]
          /\ thread' = [thread EXCEPT ![t].idx = Len(b.list) + 1,
                                      ![t].pc = "push_cond"]
    /\ UNCHANGED <<calls, schedulervars, registryvars, autogradvars, applyvars>>

\* push, first block: with self.mutex: _clear if a round is over; append; idx
PushAppend(t) ==
    /\ thread[t].pc = "push"
    /\ Len(thread[t].idxs) < MaxRounds
    /\ LET b == IF barrier.push_tasks = 0 THEN BarrierClear(barrier) ELSE barrier
           x == Value(t, Len(thread[t].idxs) + 1)
       IN /\ barrier' = [b EXCEPT !.list = Append(@, x), !.push_tasks = @ - 1]
          /\ thread' = [thread EXCEPT ![t].idx = Len(b.list),
                                      ![t].pc = "push_cond"]
    /\ UNCHANGED <<calls, schedulervars, registryvars, autogradvars, applyvars>>

\* push, second block: notify_all if every push is in, else wait
PushBarrier(t) ==
    /\ thread[t].pc = "push_cond"
    /\ thread' = IF barrier.push_tasks = 0
                 THEN [NotifyAll(thread) EXCEPT ![t].pc = "sync"]
                 ELSE [thread EXCEPT ![t].pc = "push_wait"]
    /\ UNCHANGED <<barrier, calls, schedulervars, registryvars, autogradvars, applyvars>>

\* push: wait() returned, `while self.push_tasks` is evaluated again
PushWake(t) ==
    /\ thread[t].pc = "push_woken"
    /\ thread' = [thread EXCEPT ![t].pc = IF barrier.push_tasks = 0 THEN "sync"
                                          ELSE "push_wait"]
    /\ UNCHANGED <<barrier, calls, schedulervars, registryvars, autogradvars, applyvars>>

\* mutant of SyncReduce: every thread invokes op, not only the last one
SyncReduceEveryThread(t) ==
    /\ thread[t].pc = "sync"
    /\ IF Len(barrier.list) = barrier.counter
       THEN /\ barrier' = [barrier EXCEPT
                             !.out = Operation(barrier.op, barrier.list),
                             !.reduce_tasks = @ - 1]
            /\ calls' = Append(calls, <<t, barrier.list>>)
            /\ thread' = [thread EXCEPT ![t].pc = "sync_cond"]
       ELSE /\ thread' = [thread EXCEPT ![t].pc = "AssertionError"]
            /\ UNCHANGED <<barrier, calls>>
    /\ UNCHANGED <<schedulervars, registryvars, autogradvars, applyvars>>

\* _sync_op, first block: the thread that finds reduce_tasks = 1 invokes op
SyncReduce(t) ==
    /\ thread[t].pc = "sync"
    /\ IF barrier.reduce_tasks = 1
       THEN IF Len(barrier.list) = barrier.counter
            THEN /\ barrier' = [barrier EXCEPT
                                  !.out = Operation(barrier.op, barrier.list),
                                  !.reduce_tasks = @ - 1]
                 /\ calls' = Append(calls, <<t, barrier.list>>)
                 /\ thread' = [thread EXCEPT ![t].pc = "sync_cond"]
            ELSE /\ thread' = [thread EXCEPT ![t].pc = "AssertionError"]
                 /\ UNCHANGED <<barrier, calls>>
       ELSE /\ barrier' = [barrier EXCEPT !.reduce_tasks = @ - 1]
            /\ thread' = [thread EXCEPT ![t].pc = "sync_cond"]
            /\ UNCHANGED calls
    /\ UNCHANGED <<schedulervars, registryvars, autogradvars, applyvars>>

\* _sync_op, second block: notify_all if every thread is through, else wait
SyncBarrier(t) ==
    /\ thread[t].pc = "sync_cond"
    /\ thread' = IF barrier.reduce_tasks = 0
                 THEN [NotifyAll(thread) EXCEPT ![t] = Returned(thread[t])]
                 ELSE [thread EXCEPT ![t].pc = "sync_wait"]
    /\ UNCHANGED <<barrier, calls, schedulervars, registryvars, autogradvars, applyvars>>

\* _sync_op: wait() returned, `while self.reduce_tasks` is evaluated again
SyncWake(t) ==
    /\ thread[t].pc = "sync_woken"
    /\ thread' = [thread EXCEPT ![t] = IF barrier.reduce_tasks = 0
                                       THEN Returned(thread[t])
                                       ELSE [thread[t] EXCEPT !.pc = "sync_wait"]]
    /\ UNCHANGED <<barrier, calls, schedulervars, registryvars, autogradvars, applyvars>>

\* pull(idx): self.out[idx]; -1 stands for the error of a missing element
Pull(t) ==
    /\ thread[t].pc = "pull"
    /\ LET i == thread[t].idx + 1
           y == IF i \in DOMAIN barrier.out THEN barrier.out[i] ELSE -1
       IN thread' = [thread EXCEPT ![t].ys = Append(@, y), ![t].pc = "push"]
    /\ UNCHANGED <<barrier, calls, schedulervars, registryvars, autogradvars, applyvars>>

InitBarrier ==
    /\ \E counter \in 1..MaxCounter, operation \in Operations :
          /\ barrier = BarrierInit(counter, operation)
          /\ thread = [t \in 1..counter |-> ThreadInit]
    /\ calls = <<>>
    /\ SchedulerIdle
    /\ RegistryIdle
    /\ AutogradIdle
    /\ ApplyIdle

NextBarrier ==
    \E t \in DOMAIN thread :
        \/ PushAppend(t)
        \/ PushBarrier(t)
        \/ PushWake(t)
        \/ SyncReduce(t)
        \/ SyncBarrier(t)
        \/ SyncWake(t)
        \/ Pull(t)

SpecBarrier == InitBarrier /\ [][NextBarrier]_vars

\* C19: push and pull hand each thread its own slot. The indices the k-th
\* pushes of the threads returned are within 0..counter-1 and pairwise
\* distinct; the value a thread pulled is the element of the operation's
\* output at the position where its own value was appended; and with the
\* identity operation it is the value the thread pushed.
C19_OwnSlot ==
    \A t \in DOMAIN thread : \A k \in 1..Len(thread[t].idxs) :
        LET idx == thread[t].idxs[k]
        IN /\ idx \in 0..(barrier.counter - 1)
           /\ \A u \in DOMAIN thread :
                 (u # t /\ k <= Len(thread[u].idxs)) => thread[u].idxs[k] # idx
           /\ k <= Len(thread[t].ys) =>
                 /\ k <= Len(calls)
                 /\ calls[k][2][idx + 1] = Value(t, k)
                 /\ thread[t].ys[k] = Operation(barrier.op, calls[k][2])[idx + 1]
                 /\ barrier.op = "identity" => thread[t].ys[k] = Value(t, k)

\* C19 witness: several threads have pushed and pulled with the identity
\* operation, and one of them was not handed the index of its thread number.
C19_Witness ==
    /\ barrier # NoObject /\ barrier.counter >= 2 /\ barrier.op = "identity"
    /\ \A t \in DOMAIN thread : Len(thread[t].ys) >= 1
    /\ \E t \in DOMAIN thread : thread[t].idxs[1] # t - 1

----------------------------------------------------------------------------
(* KVStore registry of python/mxnet/kvstore/base.py: KVStoreBase.register   *)
(* and create.  A name is a sequence of characters, a class a record of its *)
(* identity and its __name__.                                               *)

\* characters of a name
MaxName == 2
\* classes that bear the same __name__
MaxClasses == 2

Letters == {"k", "K", "v", "V"}

\* str.lower() on one character
LowerChar(c) == IF c = "K" THEN "k" ELSE IF c = "V" THEN "v" ELSE c

\* str.lower()
Lower(name) == [i \in DOMAIN name |-> LowerChar(name[i])]

Names == UNION {[1..k -> Letters] : k \in 1..MaxName}

\* __name__ of the classes handed to register
ClassNames == {<<"K", "v">>, <<"k", "v">>, <<"K">>}

Classes == [id : 1..MaxClasses, name : ClassNames, type : {TRUE}]

\* an object that is not a class
NotAClass == [id |-> 0, name |-> <<>>, type |-> FALSE]

\* arguments of create: strings, and an object that is not a string
CreateArgs == [string : {TRUE}, value : Names] \cup {[string |-> FALSE, value |-> <<>>]}

\* kv_registry[name]()
Instance(klass) == [kind |-> "instance", class |-> klass]

\* KVStore(handle) of the native implementation
Native(name) == [kind |-> "native", name |-> name]

\* d[name] = klass
Assign(d, name, klass) ==
    [n \in DOMAIN d \cup {name} |-> IF n = name THEN klass ELSE d[n]]

Outcome(op, arg, exc, v) == [op |-> op, arg |-> arg, raised |-> exc, ret |-> v]

\* KVStoreBase.register(klass); `warnings` is not a name of the module, so
\* the branch that warns of an override raises NameError
Register(klass) ==
    /\ IF ~klass.type
       THEN /\ kv_last' = Outcome("register", klass, "AssertionError", NoObject)
            /\ UNCHANGED <<kv_registry, kv_latest>>
       ELSE LET name == Lower(klass.name)
            IN /\ kv_latest' = Assign(kv_latest, name, klass)
               /\ IF name \in DOMAIN kv_registry
                  THEN /\ kv_last' = Outcome("register", klass, "NameError", NoObject)
                       /\ UNCHANGED kv_registry
                  ELSE /\ kv_registry' = Assign(kv_registry, name, klass)
                       /\ kv_last' = Outcome("register", klass, "none", klass)
    /\ UNCHANGED <<schedulervars, barriervars, autogradvars, applyvars>>

\* create(name)
Create(arg) ==
    /\ IF ~arg.string
       THEN kv_last' = Outcome("create", arg, "TypeError", NoObject)
       ELSE LET name == Lower(arg.value)
            IN kv_last' = Outcome("create", arg, "none",
                                  IF name \in DOMAIN kv_registry
                                  THEN Instance(kv_registry[name])
                                  ELSE Native(name))
    /\ UNCHANGED <<kv_registry, kv_latest, schedulervars, barriervars, autogradvars, applyvars>>

InitRegistry ==
    RegistryIdle /\ SchedulerIdle /\ BarrierIdle /\ AutogradIdle /\ ApplyIdle

NextRegistry ==
    \/ \E klass \in Classes \cup {NotAClass} : Register(klass)
    \/ \E arg \in CreateArgs : Create(arg)

SpecRegistry == InitRegistry /\ [][NextRegistry]_vars

\* C20: registry lookup. register(klass) returns klass itself; create with
\* any letter-case variant of a name under which a class was registered
\* returns a new instance of the class most recently registered under the
\* lowercase name, never the native KVStore; create with a name that is not
\* a string raises TypeError and leaves the registry as it was.
C20_RegistryLookup ==
    [][ LET c == kv_last'
        IN /\ (c.op = "register" /\ c.arg.type)
                 => (c.raised = "none" /\ c.ret = c.arg)
           /\ (c.op = "create" /\ c.arg.string
                 /\ Lower(c.arg.value) \in DOMAIN kv_latest)
                 => c.ret = Instance(kv_latest[Lower(c.arg.value)])
           /\ (c.op = "create" /\ ~c.arg.string)
                 => (c.raised = "TypeError" /\ kv_registry' = kv_registry) ]_vars

----------------------------------------------------------------------------
(* C22, C23, C26 .. C28 *)

\* C22: floored is terminal for the rate, not for the counters. Once a
\* FactorScheduler with factor in (0, 1] and stop_factor_lr > 0 has base_lr
\* at stop_factor_lr, every later call leaves it there, and a later call
\* whose counter crosses boundaries still advances count: by step when it
\* crosses one, by at least step when it crosses more.
C22_FlooredTerminal ==
    [][ (/\ IsFactor /\ ncalls >= 1 /\ FactorInUnitInterval(self)
         /\ Less(<<0, 1>>, self.stop_factor_lr)
         /\ self.base_lr = self.stop_factor_lr)
            => /\ self'.base_lr = self.stop_factor_lr
               /\ LET k == Open(self, num_update')
                  IN /\ k >= 1 => self'.count >= self.count + self.step
                     /\ k = 1 => self'.count = self.count + self.step ]_vars

\* the last call returned the slow-start override (slow_lr is set by the
\* calls that return it and reset by every other call)
ReturnedOverride == Alive /\ ncalls >= 1 /\ self.slow_lr # None

\* C23: slow start is reachable only before the first boundary. With
\* non-decreasing counters, a call returns the slow-start override only if no
\* decay has been applied: count = 0 (FactorScheduler), cur_step_ind = 0
\* (MultiFactorScheduler).
C23_OverrideBeforeFirstDecay ==
    (ReturnedOverride /\ ordered) =>
        /\ self.count = 0
        /\ IsMulti => self.cur_step_ind = 0

\* slow_step, if set, is below the first interval or milestone of object o
SlowBelowFirst(o) ==
    o.slow_step = 0 \/ o.slow_step < (IF o.kind = "Factor" THEN o.step ELSE o.step[1])

\* C26: unit steps. When every call after the first passes the counter of
\* the call before it or one more, and slow_step (if set) is below the first
\* boundary, every call returns what a fresh scheduler of the same
\* configuration returns when called once with that counter.
C26_UnitStepEquivalence ==
    (Alive /\ ncalls >= 1 /\ unit /\ SlowBelowFirst(self))
        => ret = SchedulerCall(fresh, num_update).ret

\* C26 witness: a scheduler with slow start was called with 0, 1, 2, ...,
\* left the window and the last call applied a decay.
C26_Witness ==
    /\ IsFactor /\ unit /\ counting /\ ncalls = 2
    /\ self.slow_step # 0 /\ SlowBelowFirst(self)
    /\ decays = 1 /\ self.count > 0 /\ ret # fresh.base_lr

\* C27: catch-up and idempotence on a repeated counter. Without slow_step,
\* a call that passes again the counter n of the call before it, n being the
\* largest counter so far, consumes exactly one of the boundaries below n
\* that are still open; once none is open it returns the rate a fresh
\* scheduler returns for n and changes no state.
C27_RepeatedCounterSettles ==
    [][ (Alive /\ ncalls >= 1 /\ self.slow_step = 0
         /\ num_update' = num_update /\ num_update = highest)
            => IF Open(self, num_update) > 0
               THEN Open(self', num_update) = Open(self, num_update) - 1
               ELSE /\ self' = self
                    /\ ret' = SchedulerCall(fresh, num_update).ret
                    /\ ret' = ret ]_vars

\* C27 witness: after calls in some other order, the largest counter was
\* repeated, nothing below it is open any more, and at least two decays
\* were applied on the way.
C27_Witness ==
    /\ Alive /\ again /\ ~ordered /\ num_update = highest /\ total >= 2
    /\ Open(self, num_update) = 0
    /\ ret = SchedulerCall(fresh, num_update).ret

\* C28: bookkeeping consistency. FactorScheduler: count is a non-negative
\* multiple of step and count / step is the number of decays applied so far.
\* MultiFactorScheduler: cur_step_ind is the number of decays applied so far,
\* 0 <= cur_step_ind <= len(step), and count is the last consumed milestone
\* (0 if none).
C28_BookkeepingConsistent ==
    /\ IsFactor => /\ self.count >= 0
                   /\ self.count % self.step = 0
                   /\ self.count \div self.step = total
    /\ IsMulti => /\ self.cur_step_ind = total
                  /\ self.cur_step_ind \in 0..Len(self.step)
                  /\ self.count = IF self.cur_step_ind = 0 THEN 0
                                  ELSE self.step[self.cur_step_ind]

\* C28 witness: every milestone of a list of several is consumed, after
\* calls that did not come in order.
C28_Witness ==
    /\ IsMulti /\ ~ordered /\ Len(self.step) >= 2
    /\ self.cur_step_ind = Len(self.step) /\ total = Len(self.step)

----------------------------------------------------------------------------
(* C24, C25 *)

\* the values of list
Range(list) == {list[i] : i \in DOMAIN list}

\* C24: round semantics. The assertion len(list) == counter never fails; the
\* k-th invocation of op is the only one that gets values of round k, and it
\* gets the values all `counter` threads pushed in round k; no k-th push has
\* returned before the k-th invocation; and while a thread is between its
\* push and its pull, out holds the result of its round's invocation.
C24_RoundSemantics ==
    /\ \A t \in DOMAIN thread : thread[t].pc # "AssertionError"
    /\ \A k \in 1..Len(calls) :
          /\ Len(calls[k][2]) = barrier.counter
          /\ Range(calls[k][2]) = {Value(t, k) : t \in DOMAIN thread}
    /\ \A t \in DOMAIN thread :
          /\ Len(thread[t].idxs) <= Len(calls)
          /\ thread[t].pc = "pull" =>
                barrier.out = Operation(barrier.op, calls[Len(thread[t].idxs)][2])

\* C24 witness: two rounds of several threads are through, and op was
\* invoked by one thread in the first round and by another in the second.
C24_Witness ==
    /\ barrier # NoObject /\ barrier.counter >= 2 /\ Len(calls) = 2
    /\ calls[1][1] # calls[2][1]
    /\ \A t \in DOMAIN thread : Len(thread[t].idxs) = 2

\* thread t can take a step
Runnable(t) ==
    \/ thread[t].pc \in {"push_cond", "push_woken", "sync", "sync_cond",
                          "sync_woken", "pull"}
    \/ thread[t].pc = "push" /\ Len(thread[t].idxs) < MaxRounds

\* C25: reuse is deadlock-free. Whenever a thread waits inside push (on
\* push_tasks or on reduce_tasks), some thread can still take a step, so
\* that the wait can end; in particular the _clear of the next round does not
\* leave a thread of this round waiting with nobody to wake it.
C25_ReuseDeadlockFree ==
    (\E t \in DOMAIN thread : thread[t].pc \in {"push_wait", "sync_wait"})
        => \E u \in DOMAIN thread : Runnable(u)

----------------------------------------------------------------------------
(* autograd.py: the recording and training flags and RecordingStateScope.
   The flags are the strings "True" and "False"; a scope's fields also take
   "None".                                                                  *)

MaxScopes == 2   \* scope objects created
MaxDepth  == 2   \* `with` blocks open at once

Bools == {"True", "False"}

\* RecordingStateScope.__init__; `by` remembers the function that made it
RecordingStateScope(is_record, is_train, by) ==
    [_enter_is_record |-> is_record, _enter_is_train |-> is_train,
     _prev_is_record |-> "None", _prev_is_train |-> "None", by |-> by]

record(is_train) == RecordingStateScope("True", is_train, "record")

pause(is_train) == RecordingStateScope("False", is_train, "pause")

\* mutant of override_train: the scope also turns recording on
override_train_records == RecordingStateScope("True", "True", "override_train")

override_train == RecordingStateScope("None", "True", "override_train")

override_test == RecordingStateScope("None", "False", "override_test")

\* what a scope operation leaves in scope_last
ScopeStep(op, i, entered, rec, trn) ==
    [kind |-> op, scope |-> i, recording |-> recording, training |-> training,
     entered |-> entered, set_recording |-> rec, set_training |-> trn]

\* s = record(is_train), pause(is_train), override_train() or override_test()
Created(s) ==
    /\ Len(scopes) < MaxScopes
    /\ scopes' = Append(scopes, s)
    /\ scope_last' = ScopeStep("new", Len(scopes) + 1,
                               <<recording, training>>, FALSE, FALSE)
    /\ UNCHANGED <<recording, training, stack,
                   schedulervars, barriervars, registryvars, applyvars>>

Record(is_train) == Created(record(is_train))

Pause(is_train) == Created(pause(is_train))

OverrideTrain == Created(override_train)

OverrideTest == Created(override_test)

\* RecordingStateScope.__enter__ of scopes[i]; set_recording and set_training
\* return the flag's previous value
Enter(i) ==
    LET s == scopes[i]
        rec == s._enter_is_record # "None"
        trn == s._enter_is_train # "None"
    IN  /\ Len(stack) < MaxDepth
        /\ recording' = IF rec THEN s._enter_is_record ELSE recording
        /\ training' = IF trn THEN s._enter_is_train ELSE training
        /\ scopes' = [scopes EXCEPT
                        ![i]._prev_is_record = IF rec THEN recording ELSE @,
                        ![i]._prev_is_train = IF trn THEN training ELSE @]
        /\ stack' = Append(stack, [scope |-> i, recording |-> recording,
                                   training |-> training])
        /\ scope_last' = ScopeStep("enter", i, <<recording, training>>, rec, trn)
        /\ UNCHANGED <<schedulervars, barriervars, registryvars, applyvars>>

\* RecordingStateScope.__exit__ of the innermost open block
Exit ==
    /\ stack # <<>>
    /\ LET top == stack[Len(stack)]
           s == scopes[top.scope]
           rec == s._enter_is_record # "None"
                    /\ s._prev_is_record # s._enter_is_record
           trn == s._enter_is_train # "None"
                    /\ s._prev_is_train # s._enter_is_train
       IN  /\ recording' = IF rec THEN s._prev_is_record ELSE recording
           /\ training' = IF trn THEN s._prev_is_train ELSE training
           /\ stack' = SubSeq(stack, 1, Len(stack) - 1)
           /\ scope_last' = ScopeStep("exit", top.scope,
                                      <<top.recording, top.training>>, rec, trn)
    /\ UNCHANGED <<scopes, schedulervars, barriervars, registryvars, applyvars>>

InitAutograd ==
    /\ recording \in Bools /\ training \in Bools
    /\ scopes = <<>> /\ stack = <<>> /\ scope_last = NoObject
    /\ SchedulerIdle /\ BarrierIdle /\ RegistryIdle /\ ApplyIdle

NextAutograd ==
    \/ \E is_train \in Bools : Record(is_train)
    \/ \E is_train \in Bools : Pause(is_train)
    \/ OverrideTrain
    \/ OverrideTest
    \/ \E i \in DOMAIN scopes : Enter(i)
    \/ Exit

SpecAutograd == InitAutograd /\ [][NextAutograd]_vars

\* the scope of the last operation
LastScope == scopes[scope_last.scope]

\* C21: frame effect of the scopes. Entering an override_train() /
\* override_test() scope sets training to True / False, and neither entering
\* nor leaving such a scope calls set_recording or changes the recording
\* flag; entering a record(is_train) scope sets recording True and training
\* is_train; entering a pause(is_train) scope sets recording False and
\* training is_train.
C21_ScopeFrame ==
    scope_last.kind \in {"enter", "exit"} =>
        /\ LastScope.by \in {"override_train", "override_test"} =>
              /\ ~scope_last.set_recording
              /\ recording = scope_last.recording
        /\ scope_last.kind = "enter" =>
              /\ LastScope.by = "override_train" => training = "True"
              /\ LastScope.by = "override_test" => training = "False"
              /\ LastScope.by = "record" =>
                    recording = "True" /\ training = LastScope._enter_is_train
              /\ LastScope.by = "pause" =>
                    recording = "False" /\ training = LastScope._enter_is_train

\* C21 witness: an override_train() scope, entered while recording was on and
\* training off inside a record(False) block, has just been left.
C21_Witness ==
    /\ scope_last.kind = "exit" /\ LastScope.by = "override_train"
    /\ scope_last.recording = "True" /\ scope_last.training = "True"
    /\ scope_last.set_training
    /\ Len(stack) = 1 /\ scopes[stack[1].scope].by = "record"

\* C29: leaving a scope restores the flags to what they were just before the
\* matching __enter__, for every properly nested sequence of scopes, the same
\* scope object entered again while its block is open included.
C29_ScopesRestore ==
    scope_last.kind = "exit" => <<recording, training>> = scope_last.entered

----------------------------------------------------------------------------
(* gluon/contrib/parallel.py: parallel_apply.  An input is a record: the
   value x handed to module and whether module raises on it.  A result is a
   record too: kind "output" (value, and whether it is wrapped in a 1-tuple),
   kind "exception" (its type and the value of the input it belongs to) or
   kind "unset" for a key that results does not have yet.                   *)

MaxInputs == 2   \* len(inputs)

Values == {1, 2}

Inputs == [x : Values, raises : BOOLEAN]

InputLists == UNION {[1..n -> Inputs] : n \in 0..MaxInputs}

Unset == [kind |-> "unset", type |-> "", value |-> 0, wrapped |-> FALSE]

Output(v, wrapped) ==
    [kind |-> "output", type |-> "", value |-> v, wrapped |-> wrapped]

Exception(type, v) ==
    [kind |-> "exception", type |-> type, value |-> v, wrapped |-> FALSE]

\* module(*input, **kwargs): the forward pass, or the exception it raises
Module(input) ==
    IF input.raises THEN Exception("ModuleError", input.x)
                    ELSE Output(input.x + 10, FALSE)

\* the names a statement of _worker can resolve: its parameters and locals,
\* the locals of parallel_apply, and the globals of parallel.py
WorkerNames ==
    {"i", "module", "input", "kwargs", "results", "is_training", "lock",
     "output", "out", "e"}

ApplyNames ==
    {"module", "inputs", "kwargs_tup", "sync", "lock", "results", "_worker",
     "is_training", "threads", "outputs"}

GlobalNames ==
    {"threading", "autograd", "NDArray", "split_and_load", "Barrier",
     "DataParallel", "split_kwargs", "parallel_apply"}

Bound(name) == name \in WorkerNames \cup ApplyNames \cup GlobalNames

\* the try block of _worker on input: what reaches the `with lock` of the
\* try block (an output) or of the except clause (an exception)
WorkerTry(input) ==
    IF ~Bound("is_recording")
    THEN Exception("NameError", input.x)
    ELSE LET out == Module(input)
         IN  IF out.kind = "exception" THEN out
             ELSE IF recording = "True" THEN Output(out.value, TRUE)
             ELSE out

\* parallel_apply(module, inputs, None, sync) is called
ParallelApply(inputs, sync) ==
    /\ pa_caller = NoObject
    /\ pa_inputs' = inputs
    /\ pa_results' = [i \in DOMAIN inputs |-> Unset]
    /\ pa_workers' = [i \in DOMAIN inputs |-> [pc |-> "new", output |-> Unset]]
    /\ pa_caller' = [kind |-> "parallel_apply", sync |-> sync,
                     is_training |-> training,
                     pc |-> IF sync THEN "start" ELSE "sequential",
                     i |-> 1, outputs |-> <<>>, raised |-> Unset]
    /\ UNCHANGED <<schedulervars, barriervars, registryvars, autogradvars>>

\* for thread in threads: thread.start()
StartThread ==
    /\ pa_caller # NoObject /\ pa_caller.pc = "start"
    /\ IF pa_caller.i <= Len(pa_inputs)
       THEN /\ pa_workers' = [pa_workers EXCEPT ![pa_caller.i].pc = "try"]
            /\ pa_caller' = [pa_caller EXCEPT !.i = @ + 1]
       ELSE /\ pa_caller' = [pa_caller EXCEPT !.pc = "join", !.i = 1]
            /\ UNCHANGED pa_workers
    /\ UNCHANGED <<pa_inputs, pa_results,
                   schedulervars, barriervars, registryvars, autogradvars>>

\* worker i runs its try block up to one of the `with lock` statements
WorkerRun(i) ==
    /\ pa_workers[i].pc = "try"
    /\ pa_workers' = [pa_workers EXCEPT
                        ![i] = [pc |-> "store", output |-> WorkerTry(pa_inputs[i])]]
    /\ UNCHANGED <<pa_inputs, pa_results, pa_caller,
                   schedulervars, barriervars, registryvars, autogradvars>>

\* with lock: results[i] = output (or e), and the thread ends
WorkerStore(i) ==
    /\ pa_workers[i].pc = "store"
    /\ pa_results' = [pa_results EXCEPT ![i] = pa_workers[i].output]
    /\ pa_workers' = [pa_workers EXCEPT ![i].pc = "done"]
    /\ UNCHANGED <<pa_inputs, pa_caller,
                   schedulervars, barriervars, registryvars, autogradvars>>

\* for thread in threads: thread.join()
JoinThread ==
    /\ pa_caller # NoObject /\ pa_caller.pc = "join"
    /\ IF pa_caller.i <= Len(pa_inputs)
       THEN /\ pa_workers[pa_caller.i].pc = "done"
            /\ pa_caller' = [pa_caller EXCEPT !.i = @ + 1]
       ELSE pa_caller' = [pa_caller EXCEPT !.pc = "collect", !.i = 1]
    /\ UNCHANGED <<pa_inputs, pa_workers, pa_results,
                   schedulervars, barriervars, registryvars, autogradvars>>

\* for i in range(len(inputs)): raise results[i] or append it; return outputs
Collect ==
    /\ pa_caller # NoObject /\ pa_caller.pc = "collect"
    /\ IF pa_caller.i > Len(pa_inputs)
       THEN pa_caller' = [pa_caller EXCEPT !.pc = "returned"]
       ELSE LET output == pa_results[pa_caller.i]
            IN  IF output.kind = "exception"
                THEN pa_caller' = [pa_caller EXCEPT !.pc = "raised",
                                                    !.raised = output]
                ELSE pa_caller' = [pa_caller EXCEPT
                                     !.outputs = Append(@, output), !.i = @ + 1]
    /\ UNCHANGED <<pa_inputs, pa_workers, pa_results,
                   schedulervars, barriervars, registryvars, autogradvars>>

\* sync false: outputs = [module(*input, **kwargs) for ...] in the caller
Sequential ==
    /\ pa_caller # NoObject /\ pa_caller.pc = "sequential"
    /\ IF pa_caller.i > Len(pa_inputs)
       THEN pa_caller' = [pa_caller EXCEPT !.pc = "returned"]
       ELSE LET output == Module(pa_inputs[pa_caller.i])
            IN  IF output.kind = "exception"
                THEN pa_caller' = [pa_caller EXCEPT !.pc = "raised",
                                                    !.raised = output]
                ELSE pa_caller' = [pa_caller EXCEPT
                                     !.outputs = Append(@, output), !.i = @ + 1]
    /\ UNCHANGED <<pa_inputs, pa_workers, pa_results,
                   schedulervars, barriervars, registryvars, autogradvars>>

InitApply ==
    /\ ApplyIdle
    /\ recording \in Bools /\ training \in Bools
    /\ scopes = <<>> /\ stack = <<>> /\ scope_last = NoObject
    /\ SchedulerIdle /\ BarrierIdle /\ RegistryIdle

NextApply ==
    \/ \E inputs \in InputLists, sync \in BOOLEAN : ParallelApply(inputs, sync)
    \/ StartThread
    \/ \E i \in DOMAIN pa_workers : WorkerRun(i)
    \/ \E i \in DOMAIN pa_workers : WorkerStore(i)
    \/ JoinThread
    \/ Collect
    \/ Sequential

SpecApply == InitApply /\ [][NextApply]_vars

\* the inputs module raises on
Failing == {i \in DOMAIN pa_inputs : pa_inputs[i].raises}

\* C30: when parallel_apply with sync=True has ended, every worker has
\* finished; if module raised on no input, it returned the list whose i-th
\* element is module's output for inputs[i]; otherwise it raised the
\* exception of the failing input with the lowest index.
C30_ParallelApplySync ==
    (pa_caller # NoObject /\ pa_caller.sync
        /\ pa_caller.pc \in {"returned", "raised"}) =>
        /\ \A i \in DOMAIN pa_workers : pa_workers[i].pc = "done"
        /\ IF Failing = {}
           THEN /\ pa_caller.pc = "returned"
                /\ pa_caller.outputs = [i \in DOMAIN pa_inputs |-> Module(pa_inputs[i])]
           ELSE /\ pa_caller.pc = "raised"
                /\ pa_caller.raised =
                     Module(pa_inputs[CHOOSE i \in Failing :
                                         \A j \in Failing : i <= j])

====
